---- MODULE Spec2Model ----
(***************************************************************************)
(* JeAllocImpl (native/cocos/renderer/core/memory/JeAlloc.cc): the        *)
(* instrumented allocation facade over jemalloc.  The heap is a small set  *)
(* of regions with byte contents; size_t arithmetic is done modulo         *)
(* 2^SizeBits; the build configuration (which tracker macros are defined)  *)
(* is fixed by Init.                                                       *)
(***************************************************************************)
EXTENDS Integers, Sequences, FiniteSets, TLC

VARIABLES
    CC_MEMORY_TRACKER,      \* build: macro tested at lines 12, 37, 50, 110
    COCOS_MEMORY_TRACKER,   \* build: macro tested at line 94
    heap,                   \* backing allocator: address -> region (usable size, bytes)
    ledger,                 \* MemTracker: address -> recorded size, or NoRecord
    live,                   \* addresses handed to the caller and not yet released -> requested size
    fault,                  \* "none", "assert" (CCASSERT failed), "segv" or "wild" (wild access)
    trace,                  \* collaborator calls made by the last facade call, in order
    last,                   \* the last call: operation, ptr, count (for DeallocBytes the size
                            \* ptr was requested with), result, and what the call before did to ptr
    pc,                     \* DumpStats: "idle", "printing" (inside je_malloc_stats_print), "returned"
    buf,                    \* DumpStats: the caller's buffer (capacity, cells, indices written outside it)
    jd,                     \* DumpStats: the JeDumpData local (cursor into buf, remaining size)
    report,                 \* DumpStats: the fragments je_malloc_stats_print emits, and how many it has
    arenas,                 \* jemalloc's arenas: their number and those holding unused dirty pages
    threads                 \* concurrent callers: per thread the statements left of its facade call,
                            \* the call's ptr, nptr and count, the pointer it holds, what it recorded

maintVars == <<pc, buf, jd, report, arenas>>

vars == <<CC_MEMORY_TRACKER, COCOS_MEMORY_TRACKER, heap, ledger, live, fault, trace, last,
          maintVars, threads>>

-----------------------------------------------------------------------------
(* Bounds of the model *)

SizeBits == 5       \* width of size_t in the model
MaxUsable == 16     \* largest region the backing allocator can hand out
MaxLive == 1        \* number of regions the caller holds at a time
MaxCap == 3         \* largest bufsize passed to DumpStats
MaxFrags == 2       \* most fragments in one statistics report
MaxFragLen == 2     \* longest fragment
MaxManual == 6      \* most arenas created on top of the configured ones
NThreads == 2       \* threads calling the facade concurrently

SizeMod == 2 ^ SizeBits
NULL == 0
\* one address more than the caller holds: ReallocBytes allocates the new
\* region before it frees the old one
Addrs == 1..(MaxLive + 1)
Ptrs == Addrs \cup {NULL}
Uninit == 0 - 1
NoRecord == 0 - 1
NotLive == 0 - 1

\* request sizes the caller passes: zero, an exact fit of a size class, one
\* that leaves slack, and one within 4 of the maximum
Counts == {0, 4, 5, SizeMod - 4}
\* the platform SIMD alignment
Aligns == {16}
\* the byte the caller stores at position i of a region
Pattern(i) == 160 + i
\* what a wild access may do: stop the process, or land somewhere and let the
\* call run on (after which nothing more is assumed about the process)
UBOutcomes == {"segv", "wild"}

-----------------------------------------------------------------------------
(* size_t arithmetic and the canary constant *)

Plus(a, b) == (a + b) % SizeMod
Minus(a, b) == (a - b + SizeMod) % SizeMod

MEM_CHECKTAG_SIZE == IF CC_MEMORY_TRACKER THEN 4 ELSE 0
MEM_CHECKTAG == 538380057       \* 0x20170719
narenas == 4                    \* je_malloc_conf = "narenas:4"

\* memcpy of the uint tag: its bytes in memory order (little endian)
TagByte(i) == (MEM_CHECKTAG \div (256 ^ (i - 1))) % 256

-----------------------------------------------------------------------------
(* The backing allocator (jemalloc), as the facade uses it *)

FreeRegion == [usable |-> 0, mem |-> <<>>]
Fresh(u) == [usable |-> u, mem |-> [i \in 1..u |-> Uninit]]

\* size class of a request: 8, then multiples of the 16-byte quantum
s2u(size) == IF size <= 8 THEN 8 ELSE 16 * ((size + 15) \div 16)
sa2u(align, size) == align * ((s2u(size) + align - 1) \div align)

\* r is a result the allocator may give for a region of u usable bytes:
\* null (it cannot satisfy the request) or any address not in use
CanReturn(h, u, r) == IF r = NULL THEN TRUE ELSE h[r].usable = 0 /\ u <= MaxUsable

\* a collaborator call: its pointer argument, its size argument, its result
Ev(call, ptr, arg, ret) == [call |-> call, ptr |-> ptr, arg |-> arg, ret |-> ret]

Halted(m) == m.fault \in {"assert", "segv"}

je_malloc_usable_size(m, ptr) == IF ptr = NULL THEN 0 ELSE m.heap[ptr].usable

je_malloc(m, size, r) ==
    IF Halted(m) THEN m
    ELSE [m EXCEPT !.heap = IF r = NULL THEN @ ELSE [@ EXCEPT ![r] = Fresh(s2u(size))],
                   !.trace = Append(@, Ev("je_malloc", NULL, size, r)),
                   !.ret = r]

je_aligned_alloc(m, align, size, r) ==
    IF Halted(m) THEN m
    ELSE [m EXCEPT !.heap = IF r = NULL THEN @ ELSE [@ EXCEPT ![r] = Fresh(sa2u(align, size))],
                   !.trace = Append(@, Ev("je_aligned_alloc", NULL, size, r)),
                   !.ret = r]

je_free(m, ptr) ==
    IF Halted(m) THEN m
    ELSE [m EXCEPT !.heap = IF ptr = NULL THEN @ ELSE [@ EXCEPT ![ptr] = FreeRegion],
                   !.trace = Append(@, Ev("je_free", ptr, 0, NULL))]

\* je_realloc(ptr, size): free when size is 0, malloc when ptr is null; else
\* the region stays where it is when its size class does not change, and
\* otherwise moves to r (on failure the old region is left as it was)
je_realloc(m, ptr, size, r) ==
    LET usize == s2u(size)
        old == m.heap[ptr]
    IN  IF Halted(m) THEN m
        ELSE IF ptr = NULL
        THEN [m EXCEPT !.heap = IF r = NULL THEN @ ELSE [@ EXCEPT ![r] = Fresh(usize)],
                       !.trace = Append(@, Ev("je_realloc", ptr, size, r)),
                       !.ret = r]
        ELSE IF size = 0
        THEN [m EXCEPT !.heap[ptr] = FreeRegion,
                       !.trace = Append(@, Ev("je_realloc", ptr, size, NULL)),
                       !.ret = NULL]
        ELSE IF usize = old.usable
        THEN [m EXCEPT !.trace = Append(@, Ev("je_realloc", ptr, size, ptr)),
                       !.ret = ptr]
        ELSE IF r = NULL
        THEN [m EXCEPT !.trace = Append(@, Ev("je_realloc", ptr, size, NULL)),
                       !.ret = NULL]
        ELSE [m EXCEPT
                !.heap = [@ EXCEPT ![r] = [usable |-> usize,
                                           mem |-> [i \in 1..usize |->
                                               IF i <= old.usable THEN old.mem[i] ELSE Uninit]],
                                   ![ptr] = FreeRegion],
                !.trace = Append(@, Ev("je_realloc", ptr, size, r)),
                !.ret = r]

\* memcpy(dst, src, n): bytes that fall inside dst's region are written; a
\* null dst or bytes past the region are a wild write whose outcome is ub
memcpy(m, dst, src, n, ub) ==
    IF Halted(m) THEN m
    ELSE LET du == je_malloc_usable_size(m, dst)
             copied == [m EXCEPT !.trace = Append(@, Ev("memcpy", dst, n, NULL))]
         IN  IF dst = NULL
             THEN [copied EXCEPT !.fault = ub]
             ELSE [copied EXCEPT
                     !.heap[dst].mem = [i \in 1..du |-> IF i <= n THEN m.heap[src].mem[i] ELSE @[i]],
                     !.fault = IF n > du THEN ub ELSE @]

-----------------------------------------------------------------------------
(* MemTracker, as the facade uses it *)

RecordAlloc(m, ptr, count) ==
    IF Halted(m) THEN m
    ELSE [m EXCEPT !.ledger[ptr] = count,
                   !.trace = Append(@, Ev("RecordAlloc", ptr, count, NULL))]

RecordFree(m, ptr) ==
    IF Halted(m) THEN m
    ELSE [m EXCEPT !.ledger[ptr] = NoRecord,
                   !.trace = Append(@, Ev("RecordFree", ptr, 0, NULL))]

-----------------------------------------------------------------------------
(* Overflow guard *)

\* offset of the canary from ptr: size - MEM_CHECKTAG_SIZE, as pointer arithmetic
TagOffset(m, ptr) == je_malloc_usable_size(m, ptr) - MEM_CHECKTAG_SIZE

\* CheckOverflowAlloc with the canary one byte short of its place
CheckOverflowAllocOneShort(m, ptr, ub) ==
    IF Halted(m) THEN m
    ELSE LET size == je_malloc_usable_size(m, ptr)
             off == TagOffset(m, ptr) - 1
             stamped == [m EXCEPT !.trace = Append(@, Ev("CheckOverflowAlloc", ptr, off, NULL))]
         IN  IF ptr = NULL \/ off < 0
             THEN [stamped EXCEPT !.fault = ub]
             ELSE [stamped EXCEPT
                     !.heap[ptr].mem = [i \in 1..size |->
                         IF i > off /\ i <= off + MEM_CHECKTAG_SIZE THEN TagByte(i - off) ELSE @[i]]]

CheckOverflowAlloc(m, ptr, ub) ==
    IF Halted(m) THEN m
    ELSE LET size == je_malloc_usable_size(m, ptr)
             off == TagOffset(m, ptr)
             stamped == [m EXCEPT !.trace = Append(@, Ev("CheckOverflowAlloc", ptr, off, NULL))]
         IN  IF ptr = NULL \/ off < 0
             THEN [stamped EXCEPT !.fault = ub]
             ELSE [stamped EXCEPT
                     !.heap[ptr].mem = [i \in 1..size |->
                         IF i > off /\ i <= off + MEM_CHECKTAG_SIZE THEN TagByte(i - off) ELSE @[i]]]

\* chk is what comparing an uninitialised tag with MEM_CHECKTAG yields
CheckOverflowFree(m, ptr, chk) ==
    IF Halted(m) THEN m
    ELSE LET off == TagOffset(m, ptr)
             bytes == [i \in 1..MEM_CHECKTAG_SIZE |-> m.heap[ptr].mem[off + i]]
             equal == IF \E i \in 1..MEM_CHECKTAG_SIZE : bytes[i] = Uninit
                      THEN chk
                      ELSE \A i \in 1..MEM_CHECKTAG_SIZE : bytes[i] = TagByte(i)
         IN  [m EXCEPT !.trace = Append(@, Ev("CheckOverflowFree", ptr, off, NULL)),
                       !.fault = IF equal THEN @ ELSE "assert"]

-----------------------------------------------------------------------------
(* The facade *)

Return(m, value) == IF Halted(m) THEN [m EXCEPT !.ret = NULL] ELSE [m EXCEPT !.ret = value]

\* AllocBytes that pads the request in every build
AllocBytesPadsAlways(m, count, r, ub) ==
    LET a == je_malloc(m, Plus(count, 4), r)
        ptr == a.ret
    IN  IF CC_MEMORY_TRACKER
        THEN Return(RecordAlloc(CheckOverflowAlloc(a, ptr, ub), ptr, count), ptr)
        ELSE Return(a, ptr)

AllocBytes(m, count, r, ub) ==
    LET a == je_malloc(m, Plus(count, MEM_CHECKTAG_SIZE), r)
        ptr == a.ret
    IN  IF CC_MEMORY_TRACKER
        THEN Return(RecordAlloc(CheckOverflowAlloc(a, ptr, ub), ptr, count), ptr)
        ELSE Return(a, ptr)

\* ReallocFree that leaves the tracker record in place
ReallocFreeKeepsRecord(m, ptr, chk) ==
    Return(je_free(CheckOverflowFree(m, ptr, chk), ptr), NULL)

\* ptr != null, count == 0
ReallocFree(m, ptr, chk) ==
    Return(je_free(RecordFree(CheckOverflowFree(m, ptr, chk), ptr), ptr), NULL)

\* ptr != null, count != 0
ReallocMove(m, ptr, count, r, chk, ub) ==
    LET usz == Minus(je_malloc_usable_size(m, ptr), MEM_CHECKTAG_SIZE)
        oldsz == IF usz > count THEN count ELSE usz
        a == je_malloc(m, Plus(count, MEM_CHECKTAG_SIZE), r)
        nptr == a.ret
        b == memcpy(a, nptr, ptr, oldsz, ub)
        c == RecordAlloc(CheckOverflowAlloc(b, nptr, ub), nptr, count)
        d == je_free(RecordFree(CheckOverflowFree(c, ptr, chk), ptr), ptr)
    IN  Return(d, nptr)

\* ReallocNull that records the padded size
ReallocNullRecordsPadded(m, count, r, ub) ==
    IF count # 0
    THEN LET a == je_malloc(m, Plus(count, MEM_CHECKTAG_SIZE), r)
         IN  Return(RecordAlloc(CheckOverflowAlloc(a, a.ret, ub), a.ret,
                                Plus(count, MEM_CHECKTAG_SIZE)), a.ret)
    ELSE Return(m, NULL)

\* ptr == null
ReallocNull(m, count, r, ub) ==
    IF count # 0
    THEN LET a == je_malloc(m, Plus(count, MEM_CHECKTAG_SIZE), r)
         IN  Return(RecordAlloc(CheckOverflowAlloc(a, a.ret, ub), a.ret, count), a.ret)
    ELSE Return(m, NULL)

ReallocBytes(m, ptr, count, r, chk, ub) ==
    IF CC_MEMORY_TRACKER
    THEN IF ptr # NULL
         THEN IF count = 0
              THEN ReallocFree(m, ptr, chk)
              ELSE ReallocMove(m, ptr, count, r, chk, ub)
         ELSE ReallocNull(m, count, r, ub)
    ELSE LET a == je_realloc(m, ptr, count, r)
         IN  Return(a, a.ret)

AllocBytesAligned(m, align, count, r, ub) ==
    LET a == je_aligned_alloc(m, align, Plus(count, MEM_CHECKTAG_SIZE), r)
        ptr == a.ret
    IN  IF COCOS_MEMORY_TRACKER
        THEN Return(RecordAlloc(CheckOverflowAlloc(a, ptr, ub), ptr, count), ptr)
        ELSE Return(a, ptr)

\* DeallocBytes that hands a null ptr on to je_free
DeallocBytesFreesNull(m, ptr, chk) ==
    IF ptr = NULL THEN Return(je_free(m, ptr), NULL)
    ELSE IF CC_MEMORY_TRACKER
         THEN Return(je_free(RecordFree(CheckOverflowFree(m, ptr, chk), ptr), ptr), NULL)
         ELSE Return(je_free(m, ptr), NULL)

DeallocBytes(m, ptr, chk) ==
    IF ptr = NULL THEN Return(m, NULL)
    ELSE IF CC_MEMORY_TRACKER
         THEN Return(je_free(RecordFree(CheckOverflowFree(m, ptr, chk), ptr), ptr), NULL)
         ELSE Return(je_free(m, ptr), NULL)

-----------------------------------------------------------------------------
(* State machine: one action per facade call, plus the caller's writes *)

Entry == [heap |-> heap, ledger |-> ledger, fault |-> "none", trace |-> <<>>, ret |-> NULL]

\* what the call before did to ptr: returned it (that call's name), wrote the
\* requested bytes to it ("Write") or one byte more ("WritePast")
After(ptr) ==
    IF ptr = NULL THEN "none"
    ELSE IF last.ret = ptr THEN last.op
    ELSE IF last.op = "Write" /\ last.ptr = ptr
    THEN IF last.count > live[ptr] THEN "WritePast" ELSE "Write"
    ELSE "none"

\* the requested size of the region at ptr
Held(ptr) == IF ptr = NULL THEN 0 ELSE live[ptr]

Call(op, ptr, count) == [op |-> op, ptr |-> ptr, count |-> count, after |-> After(ptr)]

\* the state after a facade call that ended in m; nl is the caller's view of
\* what is live once the call has returned
Commit(m, call, nl) ==
    /\ heap' = m.heap
    /\ ledger' = m.ledger
    /\ fault' = m.fault
    /\ trace' = m.trace
    /\ last' = [op |-> call.op, ptr |-> call.ptr, count |-> call.count, ret |-> m.ret,
                after |-> call.after]
    /\ live' = IF Halted(m) THEN live ELSE nl
    /\ UNCHANGED <<CC_MEMORY_TRACKER, COCOS_MEMORY_TRACKER, maintVars, threads>>

Gain(l, ptr, count) == IF ptr = NULL THEN l ELSE [l EXCEPT ![ptr] = count]
Lose(l, ptr) == IF ptr = NULL THEN l ELSE [l EXCEPT ![ptr] = NotLive]

LivePtrs == {a \in Addrs : live[a] # NotLive}

\* the outcomes to choose among: those of a wild access where the call can
\* make one, those of reading the tag where it was never written
WildOutcomes(count, r) ==
    IF r = NULL \/ Plus(count, MEM_CHECKTAG_SIZE) < count THEN UBOutcomes ELSE {"wild"}
TagUninit(ptr) ==
    \E i \in 1..MEM_CHECKTAG_SIZE : heap[ptr].mem[heap[ptr].usable - MEM_CHECKTAG_SIZE + i] = Uninit
ReadOutcomes(ptr) ==
    IF ptr # NULL /\ CC_MEMORY_TRACKER /\ TagUninit(ptr) THEN BOOLEAN ELSE {TRUE}

\* no maintenance call under way
NoBuffer == [cap |-> 0, mem |-> <<>>, oob |-> {}]
MaintIdle ==
    /\ pc = "idle"
    /\ buf = NoBuffer
    /\ jd = [buf |-> 0, size |-> 0]
    /\ report = [lens |-> <<>>, fed |-> 0]

\* no concurrent caller
Threads == 1..NThreads
Resting == [pc |-> <<>>, ptr |-> NULL, nptr |-> NULL, count |-> 0, held |-> NULL, mine |-> {}]
ThreadsIdle == threads = [t \in Threads |-> Resting]

FacadeInit ==
    /\ CC_MEMORY_TRACKER \in BOOLEAN
    /\ COCOS_MEMORY_TRACKER \in BOOLEAN
    /\ COCOS_MEMORY_TRACKER => CC_MEMORY_TRACKER    \* CheckOverflowAlloc exists only under CC_MEMORY_TRACKER
    /\ heap = [a \in Addrs |-> FreeRegion]
    /\ ledger = [a \in Ptrs |-> NoRecord]
    /\ live = [a \in Addrs |-> NotLive]
    /\ fault = "none"
    /\ trace = <<>>
    /\ last = [op |-> "none", ptr |-> NULL, count |-> 0, ret |-> NULL,
               after |-> "none"]

Init ==
    /\ FacadeInit
    /\ MaintIdle
    /\ ThreadsIdle
    /\ arenas = [n |-> narenas, dirty |-> {}]

CallAllocBytes ==
    /\ fault = "none"
    /\ Cardinality(LivePtrs) < MaxLive
    /\ \E count \in Counts, r \in Ptrs :
       \E ub \in WildOutcomes(count, r) :
         /\ CanReturn(heap, s2u(Plus(count, MEM_CHECKTAG_SIZE)), r)
         /\ LET m == AllocBytes(Entry, count, r, ub)
            IN  Commit(m, Call("AllocBytes", NULL, count), Gain(live, m.ret, count))

CallAllocBytesAligned ==
    /\ fault = "none"
    /\ Cardinality(LivePtrs) < MaxLive
    /\ \E align \in Aligns, count \in Counts, r \in Ptrs :
       \E ub \in WildOutcomes(count, r) :
         /\ CanReturn(heap, sa2u(align, Plus(count, MEM_CHECKTAG_SIZE)), r)
         /\ LET m == AllocBytesAligned(Entry, align, count, r, ub)
            IN  Commit(m, Call("AllocBytesAligned", NULL, count), Gain(live, m.ret, count))

CallDeallocBytes ==
    /\ fault = "none"
    /\ \E ptr \in LivePtrs \cup {NULL} :
       \E chk \in ReadOutcomes(ptr) :
         LET m == DeallocBytes(Entry, ptr, chk)
         IN  Commit(m, Call("DeallocBytes", ptr, Held(ptr)), Lose(live, ptr))

CallReallocBytes ==
    /\ fault = "none"
    /\ \E ptr \in LivePtrs \cup {NULL}, count \in Counts, r \in Ptrs :
       \E chk \in ReadOutcomes(ptr), ub \in WildOutcomes(count, r) :
         /\ ptr = NULL => Cardinality(LivePtrs) < MaxLive
         /\ CanReturn(heap, s2u(Plus(count, MEM_CHECKTAG_SIZE)), r)
         /\ LET m == ReallocBytes(Entry, ptr, count, r, chk, ub)
                released == ptr # NULL /\ (CC_MEMORY_TRACKER \/ count = 0 \/ m.ret # NULL)
                kept == IF released THEN Lose(live, ptr) ELSE live
            IN  Commit(m, Call("ReallocBytes", ptr, count), Gain(kept, m.ret, count))

\* the caller writes n bytes at a live pointer: exactly the requested size,
\* or one byte more; writes stay inside the region
CallerWrite ==
    /\ fault = "none"
    /\ \E ptr \in LivePtrs, over \in {0, 1} :
         LET n == live[ptr] + over
         IN  /\ n >= 1
             /\ n <= heap[ptr].usable
             /\ heap' = [heap EXCEPT ![ptr].mem = [i \in 1..heap[ptr].usable |->
                                                     IF i <= n THEN Pattern(i) ELSE @[i]]]
             /\ last' = [op |-> "Write", ptr |-> ptr, count |-> n, ret |-> NULL,
                         after |-> After(ptr)]
             /\ trace' = <<>>
             /\ UNCHANGED <<CC_MEMORY_TRACKER, COCOS_MEMORY_TRACKER, ledger, live, fault,
                            maintVars, threads>>

Next ==
    \/ CallAllocBytes
    \/ CallAllocBytesAligned
    \/ CallDeallocBytes
    \/ CallReallocBytes
    \/ CallerWrite

Spec == Init /\ [][Next]_vars

-----------------------------------------------------------------------------
(* Maintenance operations: DumpStats and TrimAlloc *)

\* the j-th character of the i-th fragment, and the fragment of n characters
\* as the C string the callback receives
Char(i, j) == 16 * i + j
Msg(i, n) == [j \in 1..(n + 1) |-> IF j <= n THEN Char(i, j) ELSE 0]

strlen(msg) == (CHOOSE k \in 1..Len(msg) : msg[k] = 0 /\ \A j \in 1..(k - 1) : msg[j] # 0) - 1

\* a store to cell i of the caller's buffer; outside the buffer it is a wild write
Store(b, i, v) ==
    IF i \in DOMAIN b.mem THEN [b EXCEPT !.mem[i] = v] ELSE [b EXCEPT !.oob = @ \cup {i}]

RECURSIVE CopyIn(_, _, _, _)
CopyIn(b, at, msg, len) ==
    IF len = 0 THEN b ELSE Store(CopyIn(b, at, msg, len - 1), at + len - 1, msg[len])

\* the callback handed to je_malloc_stats_print; s holds the JeDumpData, the
\* buffer and the fault so far
JeStatsPrint(s, msg, ub) ==
    IF s.jd.size = 0 THEN s
    ELSE LET n == strlen(msg)
             len == IF n > s.jd.size THEN s.jd.size ELSE n
             \* memcpy(jd->buf, msg, len): a negative len converts to a huge size_t
             copied == IF len < 0 THEN [s EXCEPT !.fault = ub]
                       ELSE [s EXCEPT !.buf = CopyIn(@, s.jd.buf, msg, len)]
             ended == [copied EXCEPT !.buf = Store(@, s.jd.buf + len, 0)]
         IN  IF copied.fault = "segv" THEN copied
             ELSE [ended EXCEPT !.fault = IF ended.buf.oob # {} THEN ub ELSE @,
                                !.jd = [buf |-> s.jd.buf + len, size |-> s.jd.size - len]]

\* DumpStats up to its call of je_malloc_stats_print
DumpStats(bufsize) == [buf |-> 0, size |-> bufsize - 1]

\* sprintf "%d" and the index jemalloc reads back out of the name
RECURSIVE Digits(_)
Digits(n) == IF n < 10 THEN <<n>> ELSE Append(Digits(n \div 10), n % 10)
RECURSIVE Number(_)
Number(ds) == IF Len(ds) = 0 THEN 0 ELSE 10 * Number(SubSeq(ds, 1, Len(ds) - 1)) + ds[Len(ds)]
sprintf(n) == <<"arena", ".">> \o Digits(n) \o <<".", "purge">>
ArenaIndex(name) == Number(SubSeq(name, 3, Len(name) - 2))

\* je_mallctl("arena.<i>.purge"): purges arena i, or every arena when i is
\* the number of arenas; ok = FALSE is a call that fails and does nothing
je_mallctl_purge(m, name, ok) ==
    LET i == ArenaIndex(name)
        done == ok /\ i <= m.arenas.n
    IN  [m EXCEPT !.arenas.dirty = IF ~done THEN @ ELSE IF i = m.arenas.n THEN {} ELSE @ \ {i},
                  !.trace = Append(@, Ev("je_mallctl", NULL, name, IF done THEN 0 ELSE 1))]

\* je_mallctl("arenas.narenas"): on success the count, else the variable's old value
je_mallctl_narenas(m, old, ok) ==
    [m EXCEPT !.ret = IF ok THEN m.arenas.n ELSE old,
              !.trace = Append(@, Ev("je_mallctl", NULL, <<"arenas.narenas">>, IF ok THEN 0 ELSE 1))]

\* TrimAlloc that purges the last arena only
TrimAllocLastArena(m, qok, pok) ==
    LET a == je_mallctl_narenas(m, 0, qok)
    IN  je_mallctl_purge(a, sprintf(IF a.ret > 0 THEN a.ret - 1 ELSE 0), pok)

TrimAlloc(m, qok, pok) ==
    LET a == je_mallctl_narenas(m, 0, qok)
    IN  je_mallctl_purge(a, sprintf(a.ret), pok)

\* the maintenance operations are the same in every build
MaintInit ==
    /\ FacadeInit
    /\ ~CC_MEMORY_TRACKER
    /\ MaintIdle
    /\ ThreadsIdle
    /\ arenas = [n |-> narenas, dirty |-> {}]

FacadeUnchanged ==
    UNCHANGED <<CC_MEMORY_TRACKER, COCOS_MEMORY_TRACKER, heap, ledger, live, threads>>

CallDumpStats ==
    /\ pc = "idle"
    /\ \E bufsize \in 0..MaxCap, k \in 0..MaxFrags :
       \E lens \in [1..k -> 0..MaxFragLen] :
         /\ buf' = [cap |-> bufsize, mem |-> [i \in 0..(bufsize - 1) |-> Uninit], oob |-> {}]
         /\ jd' = DumpStats(bufsize)
         /\ report' = [lens |-> lens, fed |-> 0]
         /\ last' = [op |-> "DumpStats", ptr |-> NULL, count |-> bufsize, ret |-> NULL,
                     after |-> "none"]
    /\ pc' = "printing"
    /\ trace' = <<>>
    /\ UNCHANGED <<fault, arenas>>
    /\ FacadeUnchanged

\* je_malloc_stats_print emits its next fragment
EmitFragment ==
    /\ pc = "printing"
    /\ fault = "none"
    /\ report.fed < Len(report.lens)
    /\ LET i == report.fed + 1
           msg == Msg(i, report.lens[i])
       IN  \E ub \in UBOutcomes :
             LET s == JeStatsPrint([jd |-> jd, buf |-> buf, fault |-> fault], msg, ub)
             IN  /\ jd' = s.jd
                 /\ buf' = s.buf
                 /\ fault' = s.fault
                 /\ trace' = Append(trace, Ev("JeStatsPrint", NULL, strlen(msg), NULL))
    /\ report' = [report EXCEPT !.fed = @ + 1]
    /\ UNCHANGED <<pc, last, arenas>>
    /\ FacadeUnchanged

\* je_malloc_stats_print and then DumpStats return
DumpStatsReturn ==
    /\ pc = "printing"
    /\ fault # "segv"
    /\ report.fed = Len(report.lens)
    /\ pc' = "returned"
    /\ UNCHANGED <<buf, jd, report, fault, trace, last, arenas>>
    /\ FacadeUnchanged

StatsNext ==
    \/ CallDumpStats
    \/ EmitFragment
    \/ DumpStatsReturn

StatsSpec == MaintInit /\ [][StatsNext]_vars

NoCall == [op |-> "none", ptr |-> NULL, count |-> 0, ret |-> NULL, after |-> "none"]

\* the application creates an arena (arenas.create)
ArenaCreate ==
    /\ arenas.n < narenas + MaxManual
    /\ arenas' = [arenas EXCEPT !.n = @ + 1]
    /\ last' = NoCall
    /\ trace' = <<>>
    /\ UNCHANGED <<pc, buf, jd, report, fault>>
    /\ FacadeUnchanged

\* allocation activity leaves unused dirty pages in an arena
ArenaDirty ==
    /\ \E i \in 0..(arenas.n - 1) :
         /\ i \notin arenas.dirty
         /\ arenas' = [arenas EXCEPT !.dirty = @ \cup {i}]
    /\ last' = NoCall
    /\ trace' = <<>>
    /\ UNCHANGED <<pc, buf, jd, report, fault>>
    /\ FacadeUnchanged

CallTrimAlloc ==
    /\ \E qok \in BOOLEAN, pok \in BOOLEAN :
         LET m == TrimAlloc([arenas |-> arenas, trace |-> <<>>, ret |-> 0], qok, pok)
         IN  /\ arenas' = m.arenas
             /\ trace' = m.trace
    /\ last' = [op |-> "TrimAlloc", ptr |-> NULL, count |-> arenas.n, ret |-> NULL,
                after |-> "none"]
    /\ UNCHANGED <<pc, buf, jd, report, fault>>
    /\ FacadeUnchanged

TrimNext ==
    \/ ArenaCreate
    \/ ArenaDirty
    \/ CallTrimAlloc

TrimSpec == MaintInit /\ [][TrimNext]_vars

-----------------------------------------------------------------------------
(* Concurrent callers: each facade call is the sequence of its collaborator
   calls, each of them atomic, interleaved with those of the other threads *)

ThreadAddrs == 1..(NThreads + 1)
\* the size every thread allocates; ReallocBytes is called with it or with 0
ThreadCount == 4

\* the statements of each facade function, in program order (tracked build)
AllocBytesBody == <<"je_malloc", "CheckOverflowAlloc", "RecordAlloc", "return">>
AllocBytesAlignedBody ==
    IF COCOS_MEMORY_TRACKER
    THEN <<"je_aligned_alloc", "CheckOverflowAlloc", "RecordAlloc", "return">>
    ELSE <<"je_aligned_alloc", "return">>
\* DeallocBytes that frees before it removes the record
DeallocBytesBodyFreesFirst == <<"CheckOverflowFree", "je_free", "RecordFree", "return">>
DeallocBytesBody == <<"CheckOverflowFree", "RecordFree", "je_free", "return">>
ReallocFreeBody == <<"CheckOverflowFree", "RecordFree", "je_free", "return">>
ReallocMoveBody ==
    <<"je_malloc", "memcpy", "CheckOverflowAlloc", "RecordAlloc",
      "CheckOverflowFree", "RecordFree", "je_free", "return">>
ReallocNullBody(count) == IF count # 0 THEN AllocBytesBody ELSE <<"return">>
ReallocBytesBody(ptr, count) ==
    IF ptr # NULL
    THEN IF count = 0 THEN ReallocFreeBody ELSE ReallocMoveBody
    ELSE ReallocNullBody(count)

ThreadsInit ==
    /\ CC_MEMORY_TRACKER = TRUE
    /\ COCOS_MEMORY_TRACKER = FALSE     \* the file defines it nowhere
    /\ heap = [a \in ThreadAddrs |-> FreeRegion]
    /\ ledger = [a \in ThreadAddrs \cup {NULL} |-> NoRecord]
    /\ live = [a \in Addrs |-> NotLive]
    /\ fault = "none"
    /\ trace = <<>>
    /\ last = NoCall
    /\ MaintIdle
    /\ arenas = [n |-> narenas, dirty |-> {}]
    /\ ThreadsIdle

\* thread t is at statement stmt of its call
At(t, stmt) == fault = "none" /\ threads[t].pc # <<>> /\ Head(threads[t].pc) = stmt

\* the shared state after a collaborator call that ended in m, thread t moving on
Advance(t, m, locals) ==
    /\ heap' = m.heap
    /\ ledger' = m.ledger
    /\ fault' = m.fault
    /\ threads' = [threads EXCEPT ![t] = [locals EXCEPT !.pc = Tail(@)]]
    /\ UNCHANGED <<CC_MEMORY_TRACKER, COCOS_MEMORY_TRACKER, live, trace, last, maintVars>>

Begin(t, body, ptr, count) ==
    /\ threads' = [threads EXCEPT ![t] = [@ EXCEPT !.pc = body, !.ptr = ptr, !.nptr = NULL,
                                                   !.count = count]]
    /\ UNCHANGED <<CC_MEMORY_TRACKER, COCOS_MEMORY_TRACKER, heap, ledger, live, fault, trace,
                   last, maintVars>>

\* a thread enters a facade function: an allocation when it holds no pointer,
\* a release or a reallocation of the pointer it holds
ThreadCall ==
    /\ fault = "none"
    /\ \E t \in Threads :
         /\ threads[t].pc = <<>>
         /\ IF threads[t].held = NULL
            THEN \/ Begin(t, AllocBytesBody, NULL, ThreadCount)
                 \/ Begin(t, AllocBytesAlignedBody, NULL, ThreadCount)
                 \/ Begin(t, ReallocBytesBody(NULL, ThreadCount), NULL, ThreadCount)
            ELSE \/ Begin(t, DeallocBytesBody, threads[t].held, 0)
                 \/ \E count \in {0, ThreadCount} :
                      Begin(t, ReallocBytesBody(threads[t].held, count), threads[t].held, count)

\* je_malloc or je_aligned_alloc succeeds with any address not in use
ThreadAllocates ==
    \E t \in Threads, r \in ThreadAddrs :
      LET size == Plus(threads[t].count, MEM_CHECKTAG_SIZE)
      IN  \/ /\ At(t, "je_malloc")
             /\ CanReturn(heap, s2u(size), r)
             /\ Advance(t, je_malloc(Entry, size, r), [threads[t] EXCEPT !.nptr = r])
          \/ /\ At(t, "je_aligned_alloc")
             /\ \E align \in Aligns :
                  /\ CanReturn(heap, sa2u(align, size), r)
                  /\ Advance(t, je_aligned_alloc(Entry, align, size, r),
                             [threads[t] EXCEPT !.nptr = r])

ThreadCopies ==
    \E t \in Threads :
      /\ At(t, "memcpy")
      /\ LET usz == Minus(je_malloc_usable_size(Entry, threads[t].ptr), MEM_CHECKTAG_SIZE)
             oldsz == IF usz > threads[t].count THEN threads[t].count ELSE usz
         IN  Advance(t, memcpy(Entry, threads[t].nptr, threads[t].ptr, oldsz, "wild"), threads[t])

ThreadStamps ==
    \E t \in Threads :
      /\ At(t, "CheckOverflowAlloc")
      /\ Advance(t, CheckOverflowAlloc(Entry, threads[t].nptr, "wild"), threads[t])

ThreadRecordsAlloc ==
    \E t \in Threads :
      /\ At(t, "RecordAlloc")
      /\ Advance(t, RecordAlloc(Entry, threads[t].nptr, threads[t].count),
                 [threads[t] EXCEPT !.mine = @ \cup {threads[t].nptr}])

ThreadChecks ==
    \E t \in Threads :
      /\ At(t, "CheckOverflowFree")
      /\ \E chk \in ReadOutcomes(threads[t].ptr) :
           Advance(t, CheckOverflowFree(Entry, threads[t].ptr, chk), threads[t])

ThreadRecordsFree ==
    \E t \in Threads :
      /\ At(t, "RecordFree")
      /\ Advance(t, RecordFree(Entry, threads[t].ptr),
                 [threads[t] EXCEPT !.mine = @ \ {threads[t].ptr}])

ThreadFrees ==
    \E t \in Threads :
      /\ At(t, "je_free")
      /\ Advance(t, je_free(Entry, threads[t].ptr), threads[t])

\* the call returns: the caller holds the result, no longer the released ptr
ThreadReturns ==
    \E t \in Threads :
      /\ At(t, "return")
      /\ Advance(t, Entry, [threads[t] EXCEPT !.held = threads[t].nptr,
                                              !.ptr = NULL, !.nptr = NULL, !.count = 0])

ThreadsNext ==
    \/ ThreadCall
    \/ ThreadAllocates
    \/ ThreadCopies
    \/ ThreadStamps
    \/ ThreadRecordsAlloc
    \/ ThreadChecks
    \/ ThreadRecordsFree
    \/ ThreadFrees
    \/ ThreadReturns

ThreadsSpec == ThreadsInit /\ [][ThreadsNext]_vars

-----------------------------------------------------------------------------
(* Properties *)

Min(a, b) == IF a < b THEN a ELSE b
Calls(t) == [i \in 1..Len(t) |-> t[i].call]
Validated(ptr) ==
    \E i \in 1..Len(trace) : trace[i].call = "CheckOverflowFree" /\ trace[i].ptr = ptr
Releasing == last.op \in {"DeallocBytes", "ReallocBytes"} /\ last.ptr # NULL

\* C1: with tracking enabled, the ledger holds exactly the addresses that are
\* live, each with the unpadded size it was requested with.
C1_LedgerIsLiveSet ==
    (CC_MEMORY_TRACKER /\ fault = "none") =>
        \A a \in Ptrs : ledger[a] = IF a \in LivePtrs THEN live[a] ELSE NoRecord

\* C2: DeallocBytes on the pointer a successful AllocBytes(count) has just
\* returned, nothing written in between, does not fail the canary assertion.
C2_RoundTripPasses ==
    (last.op = "DeallocBytes" /\ last.after = "AllocBytes") => fault = "none"

C2_Witness ==
    /\ CC_MEMORY_TRACKER
    /\ last.op = "DeallocBytes" /\ last.after = "AllocBytes" /\ last.count = 0
    /\ Validated(last.ptr)
    /\ fault = "none"

\* C3: with overflow checking enabled, a write of count+1 bytes to a live
\* pointer is detected by the next canary validation on that pointer.
C3_OnePastIsDetected ==
    (CC_MEMORY_TRACKER /\ Releasing /\ last.after = "WritePast" /\ Validated(last.ptr))
        => fault = "assert"

\* C4: with overflow checking enabled, the canary of every live allocation
\* lies inside its usable region at an offset >= count, and a validation that
\* follows a write of exactly count bytes passes.
C4_CanaryClearOfCount ==
    /\ (CC_MEMORY_TRACKER /\ fault = "none") =>
          \A a \in LivePtrs :
              /\ heap[a].usable - MEM_CHECKTAG_SIZE >= live[a]
              /\ heap[a].usable - MEM_CHECKTAG_SIZE >= 0
    /\ (CC_MEMORY_TRACKER /\ Releasing /\ last.after = "Write" /\ Validated(last.ptr))
          => fault # "assert"

\* C5: when the backing allocator returns null, the call returns null and
\* does nothing through the null pointer: no stamp, no copy, no tracker record.
AllocFailed ==
    \E i \in 1..Len(trace) :
        /\ trace[i].ret = NULL
        /\ \/ trace[i].call \in {"je_malloc", "je_aligned_alloc"}
           \/ trace[i].call = "je_realloc" /\ trace[i].arg > 0
C5_FailureIsJustNull ==
    AllocFailed =>
        /\ fault = "none"
        /\ last.ret = NULL
        /\ ledger[NULL] = NoRecord
        /\ \A i \in 1..Len(trace) :
              ~(trace[i].call \in {"CheckOverflowAlloc", "memcpy", "RecordAlloc"}
                  /\ trace[i].ptr = NULL)

\* C6: with tracking enabled, a successful AllocBytesAligned requests count+4
\* bytes, stamps the canary once and records the address with size count.
C6_AlignedGuardsAndRecords ==
    (CC_MEMORY_TRACKER /\ last.op = "AllocBytesAligned" /\ last.ret # NULL /\ fault = "none") =>
        /\ trace = << Ev("je_aligned_alloc", NULL, Plus(last.count, MEM_CHECKTAG_SIZE), last.ret),
                      Ev("CheckOverflowAlloc", last.ret,
                         heap[last.ret].usable - MEM_CHECKTAG_SIZE, NULL),
                      Ev("RecordAlloc", last.ret, last.count, NULL) >>
        /\ ledger[last.ret] = last.count

\* C7: a non-null result of AllocBytes(count) has at least count usable bytes
\* in front of the canary, for every count of size_t.
C7_RegionHoldsCount ==
    (last.op = "AllocBytes" /\ last.ret # NULL /\ fault = "none") =>
        heap[last.ret].usable - MEM_CHECKTAG_SIZE >= last.count

\* C8: the region ReallocBytes(ptr, N) returns for a live ptr and N > 0 holds
\* in its first min(old_size, N) bytes what ptr held there before the call.
C8_ReallocKeepsPrefix ==
    [][(/\ last'.op = "ReallocBytes" /\ last'.ptr # NULL /\ last'.count > 0
        /\ last'.ret # NULL /\ fault' \in {"none", "wild"})
         => \A i \in 1..Min(live[last'.ptr], last'.count) :
               /\ i <= heap[last'.ptr].usable
               /\ i <= heap'[last'.ret].usable
               /\ heap'[last'.ret].mem[i] = heap[last'.ptr].mem[i]]_vars

\* C9: with tracking enabled, ReallocBytes(ptr, 0) on a live ptr validates the
\* canary and then removes the tracker record, frees ptr once, allocates
\* nothing and returns null; a failed validation stops it before any of that.
C9_ReallocZeroIsFree ==
    (CC_MEMORY_TRACKER /\ last.op = "ReallocBytes" /\ last.ptr # NULL /\ last.count = 0) =>
        /\ trace[1].call = "CheckOverflowFree" /\ trace[1].ptr = last.ptr
        /\ fault \in {"none", "assert"}
        /\ fault = "assert" => Len(trace) = 1 /\ heap[last.ptr] # FreeRegion
        /\ fault = "none" =>
              /\ Calls(trace) = <<"CheckOverflowFree", "RecordFree", "je_free">>
              /\ \A i \in 1..3 : trace[i].ptr = last.ptr /\ trace[i].ret = NULL
              /\ last.ret = NULL
              /\ ledger[last.ptr] = NoRecord
              /\ heap[last.ptr] = FreeRegion
              /\ last.ptr \notin LivePtrs

C9_Witness ==
    /\ CC_MEMORY_TRACKER
    /\ last.op = "ReallocBytes" /\ last.ptr # NULL /\ last.count = 0
    /\ fault = "none"
    /\ Len(trace) = 3

\* C10: ReallocBytes(null, 0) returns null and changes nothing: no allocation,
\* no free, no canary stamp or check, no tracker call.
C10_ReallocNullZeroIsNoop ==
    (last.op = "ReallocBytes" /\ last.ptr = NULL /\ last.count = 0) =>
        /\ last.ret = NULL
        /\ fault = "none"
        /\ \A i \in 1..Len(trace) :
              /\ trace[i].ret = NULL
              /\ trace[i].call \notin {"je_free", "CheckOverflowAlloc", "CheckOverflowFree",
                                       "RecordAlloc", "RecordFree"}

\* C11: DeallocBytes(null) returns without a call to the allocator, the canary
\* check or the tracker; heap, ledger and live set stay as they were.
C11_DeallocNullIsNoop ==
    [][(last'.op = "DeallocBytes" /\ last'.ptr = NULL)
         => /\ trace' = <<>>
            /\ heap' = heap /\ ledger' = ledger /\ live' = live
            /\ fault' = "none"]_vars

C11_Witness ==
    /\ CC_MEMORY_TRACKER
    /\ last.op = "DeallocBytes" /\ last.ptr = NULL
    /\ \E a \in LivePtrs : ledger[a] = live[a]

\* C13: with overflow checking enabled, a call that hands out a pointer
\* stamps its canary exactly once, the call that releases a pointer checks its
\* canary exactly once, and no other canary is checked.
CountOf(call, ptr) ==
    Cardinality({i \in 1..Len(trace) : trace[i].call = call /\ trace[i].ptr = ptr})
C13_StampOnceCheckOnce ==
    (CC_MEMORY_TRACKER /\ fault # "segv") =>
        /\ (last.op \in {"AllocBytes", "AllocBytesAligned", "ReallocBytes"} /\ last.ret # NULL)
              => CountOf("CheckOverflowAlloc", last.ret) = 1
        /\ Releasing => CountOf("CheckOverflowFree", last.ptr) = 1
        /\ \A i \in 1..Len(trace) :
              trace[i].call = "CheckOverflowFree" => Releasing /\ trace[i].ptr = last.ptr

\* C14: ReallocBytes(null, N) with N > 0 does what AllocBytes(N) does from the
\* same state: same request to the allocator, same stamp, same tracker record,
\* same result.
AsMalloc(t) ==
    [i \in 1..Len(t) |-> IF t[i].call = "je_realloc" THEN [t[i] EXCEPT !.call = "je_malloc"]
                         ELSE t[i]]
C14_ReallocNullIsAlloc ==
    [][(last'.op = "ReallocBytes" /\ last'.ptr = NULL /\ last'.count > 0)
         => \E ub \in UBOutcomes :
              LET m == AllocBytes(Entry, last'.count, trace'[1].ret, ub)
              IN  /\ m.heap = heap' /\ m.ledger = ledger' /\ m.fault = fault'
                  /\ m.ret = last'.ret
                  /\ m.trace = AsMalloc(trace')]_vars

C14_Witness ==
    /\ CC_MEMORY_TRACKER
    /\ last.op = "ReallocBytes" /\ last.ptr = NULL /\ last.count > 0
    /\ last.ret # NULL /\ ledger[last.ret] = last.count
    /\ fault = "none"

\* C15: with tracking disabled no call stamps or checks a canary or calls the
\* tracker, an allocation requests exactly count bytes, and ReallocBytes is
\* one call of je_realloc(ptr, count) whose result it returns.
C15_UntrackedIsBare ==
    ~CC_MEMORY_TRACKER =>
        /\ \A i \in 1..Len(trace) :
              trace[i].call \notin {"CheckOverflowAlloc", "CheckOverflowFree",
                                    "RecordAlloc", "RecordFree", "memcpy"}
        /\ \A a \in Ptrs : ledger[a] = NoRecord
        /\ last.op = "AllocBytes" => trace = << Ev("je_malloc", NULL, last.count, last.ret) >>
        /\ last.op = "AllocBytesAligned"
              => trace = << Ev("je_aligned_alloc", NULL, last.count, last.ret) >>
        /\ last.op = "ReallocBytes"
              => trace = << Ev("je_realloc", last.ptr, last.count, last.ret) >>

C15_Witness ==
    /\ ~CC_MEMORY_TRACKER
    /\ last.op = "ReallocBytes" /\ last.ptr # NULL /\ last.count > 0
    /\ last.ret # NULL /\ last.ret # last.ptr

\* C17: with tracking enabled, ReallocBytes(ptr, count) on a live ptr with
\* count > 0 validates the old canary first, then allocates, copies, stamps,
\* records the new address, removes the old record and frees the old region.
C17_ValidateBeforeMove ==
    (/\ CC_MEMORY_TRACKER
     /\ last.op = "ReallocBytes" /\ last.ptr # NULL /\ last.count > 0
     /\ last.ret # NULL /\ fault = "none")
        => Calls(trace) = << "CheckOverflowFree", "je_malloc", "memcpy", "CheckOverflowAlloc",
                             "RecordAlloc", "RecordFree", "je_free" >>

\* C12: DumpStats(buffer, cap) writes only to buffer indices 0..cap-1, for
\* every cap and every sequence of fragments, and when it returns the buffer
\* holds a null terminator at an index below cap.
C12_DumpStatsBounded ==
    last.op = "DumpStats" =>
        /\ buf.oob = {}
        /\ fault = "none"
        /\ pc = "returned" => \E i \in 0..(buf.cap - 1) : buf.mem[i] = 0

\* C16: TrimAlloc asks for the number of arenas and then issues one purge
\* that covers every arena; when both calls succeed no arena keeps dirty
\* pages, and a failed call changes nothing about TrimAlloc returning.
C16_TrimPurgesEveryArena ==
    last.op = "TrimAlloc" =>
        /\ Len(trace) = 2
        /\ trace[1] = Ev("je_mallctl", NULL, <<"arenas.narenas">>, trace[1].ret)
        /\ trace[2].call = "je_mallctl"
        /\ trace[2].arg = sprintf(IF trace[1].ret = 0 THEN arenas.n ELSE 0)
        /\ (trace[1].ret = 0 /\ trace[2].ret = 0) => arenas.dirty = {}
        /\ fault = "none"

C16_Witness ==
    /\ last.op = "TrimAlloc"
    /\ arenas.n >= 10
    /\ Len(trace) = 2 /\ trace[1].ret = 0 /\ trace[2].ret = 0
    /\ trace[2].arg = <<"arena", ".", 1, 0, ".", "purge">>
    /\ arenas.dirty = {}

\* C18: for cap >= 1, when DumpStats returns the buffer holds, before its
\* terminator, the first min(total length, cap-1) characters of the fragments
\* in delivery order; a fragment that arrives when no capacity remains leaves
\* buffer and cursor as they were.
RECURSIVE Concat(_, _)
Concat(lens, k) ==
    IF k = 0 THEN <<>>
    ELSE Concat(lens, k - 1) \o [j \in 1..lens[k] |-> Char(k, j)]
TextIs(b, text) ==
    /\ Len(text) < b.cap
    /\ b.mem[Len(text)] = 0
    /\ \A i \in 1..Len(text) : b.mem[i - 1] = text[i]
C18_TruncatedConcatenation ==
    [][/\ (pc' = "returned" /\ last'.op = "DumpStats" /\ buf'.cap >= 1)
            => LET all == Concat(report'.lens, Len(report'.lens))
               IN  TextIs(buf', SubSeq(all, 1, Min(Len(all), buf'.cap - 1)))
       /\ (pc = "printing" /\ report'.fed = report.fed + 1 /\ jd.size = 0)
            => (buf' = buf /\ jd' = jd)]_vars

\* the same, for the calls in which the callback stores at least once
C18_WhenSomethingIsStored ==
    [][/\ (pc' = "returned" /\ last'.op = "DumpStats" /\ buf'.cap >= 2 /\ Len(report'.lens) >= 1)
            => LET all == Concat(report'.lens, Len(report'.lens))
               IN  TextIs(buf', SubSeq(all, 1, Min(Len(all), buf'.cap - 1)))
       /\ (pc = "printing" /\ report'.fed = report.fed + 1 /\ jd.size = 0)
            => (buf' = buf /\ jd' = jd)]_vars

\* C19: with tracking enabled and allocations succeeding, in every
\* interleaving of concurrent facade calls every address in the ledger is
\* allocated in the backing allocator, and a record a thread has inserted and
\* not yet removed is still there: no other thread's RecordFree deleted it.
C19_LedgerWithinHeap ==
    /\ \A a \in ThreadAddrs : ledger[a] # NoRecord => heap[a].usable > 0
    /\ \A t \in Threads : \A a \in threads[t].mine : ledger[a] # NoRecord

\* one thread has freed an address and not yet returned, and another thread
\* has already been given that address and recorded it
C19_Witness ==
    \E t \in Threads, u \in Threads :
        /\ t # u
        /\ threads[t].pc = <<"return">> /\ threads[t].ptr # NULL
        /\ threads[t].ptr \in threads[u].mine
        /\ ledger[threads[t].ptr] # NoRecord

====
